---- MODULE Spec2Model ----
(***************************************************************************)
(* Plan validation and quality evaluation of Project Forge:                *)
(*   tools/consistency_tool.py   check_phase_count, check_step_numbering,  *)
(*                               check_dependencies, validate_project_plan *)
(*   tools/rubric_tool.py        the five rubric scoring functions         *)
(*   agents/evaluator_agent.py   evaluate_plan_quality                     *)
(*   orchestration/crew_config.py  the refinement loop of                  *)
(*                               create_full_plan_crew                     *)
(*                                                                         *)
(* Texts are modelled by what the code reads from them: a text is a record *)
(* of its length (characters, after strip), its word count and the set of  *)
(* keywords that occur in it as substrings of the lower-cased text.        *)
(***************************************************************************)
EXTENDS Integers, Sequences, FiniteSets, TLC

VARIABLES
    plan,              \* the ProjectPlan handed to validate / evaluate
    skill_level,       \* evaluate's skill_level argument
    project_type,      \* evaluate's project_type argument
    time_constraint,   \* evaluate's time_constraint argument
    expected_count,    \* check_phase_count's expected_count argument
    op,                \* the operation that produced report / result
    report,            \* ConsistencyReport returned by the last check
    result,            \* outcome of the last evaluate_plan_quality call
    pc,                \* position of create_full_plan_crew
    max_iterations,    \* create_full_plan_crew's max_iterations argument
    iteration,         \* local `iteration` of create_full_plan_crew
    project_plan,      \* local `project_plan` of create_full_plan_crew
    evaluation_result, \* local `evaluation_result` of create_full_plan_crew
    returned,          \* the FullPlanResult returned, or NoValue
    stats,             \* history counters of the loop: drafts requested, drafts
                       \* evaluated, verdicts overridden, generation timeouts
    the_step,          \* a Step object, or NoValue before it is constructed
    step_args          \* the guidance arguments of the Step(...) call that built it

vars == <<plan, skill_level, project_type, time_constraint, expected_count, op,
          report, result, pc, max_iterations, iteration, project_plan,
          evaluation_result, returned, stats, the_step, step_args>>

(***************************************************************************)
(* Bounds of the model                                                     *)
(***************************************************************************)
MaxSteps == 2      \* steps of an enumerated small plan: 0..MaxSteps
MaxIndex == 2      \* step indices of a small plan: 1..MaxIndex; dependencies 0..MaxIndex+1
MaxIter == 3       \* max_iterations: 0..MaxIter

NoValue == [none |-> TRUE]

(***************************************************************************)
(* Sequence helpers                                                        *)
(***************************************************************************)
RECURSIVE SumSeq(_)
SumSeq(s) == IF s = <<>> THEN 0 ELSE Head(s) + SumSeq(Tail(s))

RECURSIVE Concat(_)
Concat(ss) == IF ss = <<>> THEN <<>> ELSE Head(ss) \o Concat(Tail(ss))

Count(s, x) == Cardinality({k \in 1..Len(s) : s[k] = x})

Elems(s) == {s[k] : k \in 1..Len(s)}

RECURSIVE SortedSeq(_)
SortedSeq(S) ==
    IF S = {} THEN <<>>
    ELSE LET m == CHOOSE x \in S : \A y \in S : x <= y
         IN  <<m>> \o SortedSeq(S \ {m})

(***************************************************************************)
(* consistency_tool.py                                                     *)
(***************************************************************************)
ConsistencyIssue(sev, cat, msg, a, b, ph, st) ==
    [severity |-> sev, category |-> cat,
     message |-> [text |-> msg, a |-> a, b |-> b],
     location |-> [phase |-> ph, step |-> st]]

ConsistencyReport(issues, passed, summary) ==
    [issues |-> issues, passed |-> passed, summary |-> summary]

has_errors(r) == \E k \in 1..Len(r.issues) : r.issues[k].severity = "error"

has_warnings(r) == \E k \in 1..Len(r.issues) : r.issues[k].severity = "warning"

get_error_count(r) ==
    Cardinality({k \in 1..Len(r.issues) : r.issues[k].severity = "error"})

get_warning_count(r) ==
    Cardinality({k \in 1..Len(r.issues) : r.issues[k].severity = "warning"})

\* The steps of all phases in phase order, each with the phase it belongs to
\* (the nested loops `for phase in phases: for step in phase.steps`).
StepsOf(phases) ==
    Concat([p \in 1..Len(phases) |->
               [k \in 1..Len(phases[p].steps) |->
                   [phase |-> phases[p], step |-> phases[p].steps[k]]]])

StepIndices(phases) ==
    LET all == StepsOf(phases) IN [k \in 1..Len(all) |-> all[k].step.index]

\* variant: only too few phases count
CountDiffers_TooFew(actual_count, expected) == actual_count < expected

\* line 84: if actual_count != expected_count
CountDiffers(actual_count, expected) == actual_count # expected

check_phase_count(phases, expected) ==
    LET actual_count == Len(phases)
    IN  IF CountDiffers(actual_count, expected)
        THEN ConsistencyReport(
                 <<ConsistencyIssue("error", "phase_count", "Expected phases but found",
                                    expected, actual_count, 0, 0)>>,
                 FALSE, [text |-> "", a |-> 0, b |-> 0])
        ELSE ConsistencyReport(<<>>, TRUE,
                 [text |-> "Phase count is correct", a |-> expected, b |-> 0])

\* variant: an index counts as duplicated from three occurrences on
IsDuplicate_FromThree(all_indices, idx) == Count(all_indices, idx) > 2

\* line 139: all_indices.count(idx) > 1
IsDuplicate(all_indices, idx) == Count(all_indices, idx) > 1

check_step_numbering(phases) ==
    IF phases = <<>>
    THEN ConsistencyReport(<<>>, TRUE, [text |-> "No phases to check", a |-> 0, b |-> 0])
    ELSE
      LET all == StepsOf(phases)
          all_indices == StepIndices(phases)
          \* the counter expected_index is k at the k-th step visited
          warn(k) == IF all[k].step.index # k
                     THEN <<ConsistencyIssue("warning", "step_numbering",
                                "Expected step index but found", k, all[k].step.index,
                                all[k].phase.index, all[k].step.index)>>
                     ELSE <<>>
          warnings == Concat([k \in 1..Len(all) |-> warn(k)])
          \* iteration order of set(all_indices): ascending for the small
          \* integers used here
          duplicates == SortedSeq({i \in Elems(all_indices) : IsDuplicate(all_indices, i)})
          errors == [k \in 1..Len(duplicates) |->
                        ConsistencyIssue("error", "step_numbering", "Duplicate step index",
                                         duplicates[k], 0, 0, 0)]
          issues == warnings \o errors
      IN  ConsistencyReport(issues, duplicates = <<>>,
              IF issues = <<>>
              THEN [text |-> "Step numbering is correct", a |-> Len(all_indices), b |-> 0]
              ELSE [text |-> "", a |-> 0, b |-> 0])

\* variant: every dependency is taken to exist
DependencyExists_Always(dep_index, all_step_indices) == TRUE

\* line 193: dep_index not in all_step_indices, negated
DependencyExists(dep_index, all_step_indices) == dep_index \in all_step_indices

\* variant: a step may depend on itself
NotEarlier_Strict(dep_index, step_index) == dep_index > step_index

\* line 203: dep_index >= step.index
NotEarlier(dep_index, step_index) == dep_index >= step_index

check_dependencies(phases) ==
    IF phases = <<>>
    THEN ConsistencyReport(<<>>, TRUE, [text |-> "No phases to check", a |-> 0, b |-> 0])
    ELSE
      LET all == StepsOf(phases)
          all_step_indices == Elems(StepIndices(phases))
          dep_issue(e, dep_index) ==
              IF ~DependencyExists(dep_index, all_step_indices)
              THEN <<ConsistencyIssue("error", "dependencies", "References non-existent step",
                         dep_index, 0, e.phase.index, e.step.index)>>
              ELSE IF NotEarlier(dep_index, e.step.index)
              THEN <<ConsistencyIssue("error", "dependencies",
                         "References step which is not earlier than current step",
                         dep_index, e.step.index, e.phase.index, e.step.index)>>
              ELSE <<>>
          step_issues(e) ==
              Concat([j \in 1..Len(e.step.dependencies) |->
                         dep_issue(e, e.step.dependencies[j])])
          issues == Concat([k \in 1..Len(all) |-> step_issues(all[k])])
      IN  ConsistencyReport(issues, issues = <<>>,
              IF issues = <<>>
              THEN [text |-> "All dependencies are valid", a |-> 0, b |-> 0]
              ELSE [text |-> "", a |-> 0, b |-> 0])

\* validate_project_plan takes no expected count: check_phase_count is called
\* with its default.
DefaultExpectedCount == 5

\* Plans have 0..MaxPhases phases: up to one more than validate expects.
MaxPhases == DefaultExpectedCount + 1

\* variant: a sub-report is dropped once an issue has been found
Extend_UntilFirstIssue(issues, sub_report) ==
    IF issues # <<>> THEN issues ELSE issues \o sub_report.issues

\* lines 250, 255, 260: report.issues.extend(sub_report.issues)
Extend(issues, sub_report) == issues \o sub_report.issues

\* variant: a failed sub-report does not clear passed
StillPassed_Always(passed, sub_report) == passed

\* lines 251-252, 256-257, 261-262: if not sub_report.passed: report.passed = False
StillPassed(passed, sub_report) == passed /\ sub_report.passed

validate_project_plan(p) ==
    IF "phases" \notin DOMAIN p
    THEN ConsistencyReport(
             <<ConsistencyIssue("error", "structure", "ProjectPlan has no 'phases' attribute",
                                0, 0, 0, 0)>>,
             FALSE, [text |-> "Critical structure error", a |-> 0, b |-> 0])
    ELSE
      LET phase_count_report == check_phase_count(p.phases, DefaultExpectedCount)
          step_numbering_report == check_step_numbering(p.phases)
          dependencies_report == check_dependencies(p.phases)
          issues == Extend(Extend(Extend(<<>>, phase_count_report), step_numbering_report),
                           dependencies_report)
          passed == StillPassed(StillPassed(StillPassed(TRUE, phase_count_report),
                                            step_numbering_report), dependencies_report)
          r == ConsistencyReport(issues, passed, [text |-> "", a |-> 0, b |-> 0])
      IN  ConsistencyReport(issues, passed,
              IF issues = <<>>
              THEN [text |-> "All consistency checks passed", a |-> Len(p.phases),
                    b |-> SumSeq([k \in 1..Len(p.phases) |-> Len(p.phases[k].steps)])]
              ELSE [text |-> "Found errors and warnings", a |-> get_error_count(r),
                    b |-> get_warning_count(r)])

(***************************************************************************)
(* rubric_tool.py                                                          *)
(***************************************************************************)
RubricScore(criterion, score, feedback, pass_threshold) ==
    [criterion |-> criterion, score |-> score, feedback |-> feedback,
     pass_threshold |-> pass_threshold]

passes(s) == s.score >= s.pass_threshold

Max0(n) == IF n < 0 THEN 0 ELSE n

\* `penalties` is a sequence of <<fired, points, fragment>>: the score is 10 minus
\* the points of the fired ones, the feedback their fragments in order.
\* variant: a fired fragment without points is a bonus that adds one
RECURSIVE Points_BonusAdds(_)
Points_BonusAdds(ps) ==
    IF ps = <<>> THEN 0
    ELSE (IF Head(ps)[1] THEN (IF Head(ps)[2] = 0 THEN 0 - 1 ELSE Head(ps)[2]) ELSE 0)
         + Points_BonusAdds(Tail(ps))

RECURSIVE Points(_)
Points(ps) ==
    IF ps = <<>> THEN 0
    ELSE (IF Head(ps)[1] THEN Head(ps)[2] ELSE 0) + Points(Tail(ps))

RECURSIVE Fragments(_)
Fragments(ps) ==
    IF ps = <<>> THEN <<>>
    ELSE (IF Head(ps)[1] THEN <<Head(ps)[3]>> ELSE <<>>) \o Fragments(Tail(ps))

\* " | ".join(feedback_points) if feedback_points else <positive sentence>
JoinOr(feedback_points, positive) ==
    IF feedback_points # <<>> THEN feedback_points ELSE <<positive>>

\* concept_text is [words, vague, upper]: len(concept_text.split()), the number
\* of the five vague words that occur in it, and whether any char is upper case.
evaluate_concept_clarity(concept_text) ==
    LET word_count == concept_text.words
        ps == << <<word_count < 10, 3, "Concept is too brief">>,
                 <<word_count >= 10 /\ word_count > 200, 2, "Concept is quite verbose">>,
                 <<concept_text.vague > 2, 2, "Contains vague terms">>,
                 <<~concept_text.upper, 1, "Could mention specific technologies">> >>
    IN  RubricScore("clarity", Max0(10 - Points(ps)),
                    JoinOr(Fragments(ps), "Concept is clear and well-articulated"), 7)

\* variant: the sample variance (divided by n - 1) is compared with 16
evaluate_phase_balance_SampleVariance(phases) ==
    IF phases = <<>>
    THEN RubricScore("balance", 0, <<"No phases to evaluate">>, 6)
    ELSE
      LET n == Len(phases)
          step_counts == [k \in 1..n |-> Len(phases[k].steps)]
          total_steps == SumSeq(step_counts)
          \* variance = sum((count - total/n)^2)/n > 16, cleared of fractions
          sq == SumSeq([k \in 1..n |->
                           (n * step_counts[k] - total_steps) * (n * step_counts[k] - total_steps)])
          ps == << <<n # 5, 3, "Expected 5 phases">>,
                   <<\E k \in 1..n : step_counts[k] < 3, 2, "Phases have too few steps">>,
                   <<\E k \in 1..n : step_counts[k] > 15, 2, "Phases are overloaded">>,
                   <<sq > 16 * n * n * (n - 1), 1, "Uneven step distribution">>,
                   <<total_steps < 40, 1, "plan may be underscoped">>,
                   <<total_steps >= 40 /\ total_steps > 60, 1, "plan may be overscoped">> >>
      IN  RubricScore("balance", Max0(10 - Points(ps)),
                      JoinOr(Fragments(ps), "Well-balanced"), 6)

evaluate_phase_balance(phases) ==
    IF phases = <<>>
    THEN RubricScore("balance", 0, <<"No phases to evaluate">>, 6)
    ELSE
      LET n == Len(phases)
          step_counts == [k \in 1..n |-> Len(phases[k].steps)]
          total_steps == SumSeq(step_counts)
          \* variance = sum((count - total/n)^2)/n > 16, cleared of fractions
          sq == SumSeq([k \in 1..n |->
                           (n * step_counts[k] - total_steps) * (n * step_counts[k] - total_steps)])
          ps == << <<n # 5, 3, "Expected 5 phases">>,
                   <<\E k \in 1..n : step_counts[k] < 3, 2, "Phases have too few steps">>,
                   <<\E k \in 1..n : step_counts[k] > 15, 2, "Phases are overloaded">>,
                   <<sq > 16 * n * n * n, 1, "Uneven step distribution">>,
                   <<total_steps < 40, 1, "plan may be underscoped">>,
                   <<total_steps >= 40 /\ total_steps > 60, 1, "plan may be overscoped">> >>
      IN  RubricScore("balance", Max0(10 - Points(ps)),
                      JoinOr(Fragments(ps), "Well-balanced"), 6)

basic_keywords == {"setup", "foundation", "basics", "introduction", "getting started"}

advanced_keywords == {"advanced", "production", "deployment", "optimization", "polish", "testing"}

\* `learning_coverage` is read at rubric_tool.py:470 and :474 but never
\* assigned: reading it raises NameError.
Raised(exc) == [raised |-> exc]

IsRaised(v) == "raised" \in DOMAIN v

evaluate_teaching_clarity(p, skill) ==
    LET all == StepsOf(p.phases)
        total_steps == Len(all)
        steps_with_guidance ==
            Cardinality({k \in 1..total_steps : all[k].step.teaching_guidance.len > 20})
        \* guidance_coverage = steps_with_guidance / total_steps * 100, 0 if no steps
        below(pct) == IF total_steps > 0
                      THEN steps_with_guidance * 100 < pct * total_steps
                      ELSE TRUE
        teaching_notes_length == p.teaching_notes.len   \* len(), not stripped
        n == Len(p.phases)
        early_phases == IF n >= 2 THEN {1, 2} ELSE {}
        late_phases == IF n >= 2 THEN {n - 1, n} ELSE {}
        early_has_basics ==
            \E k \in early_phases : p.phases[k].name.kw \cap basic_keywords # {}
        late_has_advanced ==
            \E k \in late_phases : p.phases[k].name.kw \cap advanced_keywords # {}
        ps == << <<below(50), 3, "Only few steps have educational guidance">>,
                 <<~below(50) /\ below(80), 1, "educational guidance could be higher">>,
                 <<teaching_notes_length < 200, 2, "Global teaching notes are too brief">>,
                 <<teaching_notes_length >= 200 /\ teaching_notes_length < 500, 1,
                   "Global teaching notes could be more detailed">>,
                 <<~early_has_basics, 1, "Early phases should emphasize foundations">>,
                 <<~late_has_advanced /\ skill # "beginner", 1,
                   "Later phases should introduce more advanced concepts">> >>
    IN  IF skill = "beginner"
        THEN Raised("NameError")       \* line 470 evaluates learning_coverage
        ELSE IF Fragments(ps) = <<>>
        THEN Raised("NameError")       \* line 474 formats learning_coverage
        ELSE RubricScore("teaching_value", Max0(10 - Points(ps)), Fragments(ps), 7)

testing_keywords == {"test", "testing", "pytest", "unittest", "tdd"}

deployment_keywords == {"deploy", "deployment", "production", "docker", "ci/cd"}

architecture_keywords == {"architecture", "design pattern", "solid", "refactor", "modular"}

error_handling_keywords == {"error", "exception", "logging", "validation", "edge case"}

database_keywords == {"database", "migration", "query", "index", "transaction"}

security_keywords == {"security", "authentication", "authorization", "encryption", "sanitize"}

complex_frameworks == {"React", "Vue", "Django", "PostgreSQL", "Kubernetes"}

simple_frameworks == {"streamlit", "json", "csv", "cli"}

\* A framework name is [name, has]: `has` is the set of the names above that
\* occur in it (complex ones case-sensitively, simple ones in its lower case);
\* name "" stands for None or the empty string.
evaluate_technical_depth(p, skill) ==
    LET all == StepsOf(p.phases)
        all_text == UNION {all[k].step.title \cup all[k].step.description : k \in 1..Len(all)}
        groups == <<testing_keywords, deployment_keywords, architecture_keywords,
                    error_handling_keywords, database_keywords, security_keywords>>
        depth_score == Cardinality({g \in 1..6 : groups[g] \cap all_text # {}})
        fws == <<p.framework.frontend, p.framework.backend, p.framework.storage>>
        frameworks == {g \in 1..3 : fws[g].name # ""}
        uses_complex == \E g \in frameworks : fws[g].has \cap complex_frameworks # {}
        simple_only == \A g \in frameworks : fws[g].has \cap simple_frameworks # {}
        ps == << <<skill = "beginner" /\ depth_score < 2, 2,
                   "Even beginner projects should cover testing and error handling">>,
                 <<skill = "intermediate" /\ depth_score < 3, 2,
                   "Intermediate projects should cover testing, error handling, and architecture">>,
                 <<skill = "advanced" /\ depth_score < 4, 3,
                   "Advanced projects should cover testing, deployment, architecture, and security">>,
                 <<skill = "beginner" /\ uses_complex, 2,
                   "Frameworks may be too complex for beginner level">>,
                 <<skill = "advanced" /\ simple_only, 2,
                   "Advanced projects should use more production-grade frameworks">>,
                 \* the "bonus" fragments carry no penalty
                 <<depth_score >= 5, 0, "Excellent technical breadth">>,
                 <<depth_score >= 3 /\ depth_score < 5, 0, "Good technical coverage">> >>
    IN  RubricScore("technical_depth", Max0(10 - Points(ps)),
                    JoinOr(Fragments(ps), "Strong technical depth appropriate for skill level"), 6)

type_expectations(project_type_) ==
    CASE project_type_ = "toy" ->
             [min_steps |-> 15, max_steps |-> 30, ideal_phases |-> 3, max_weeks |-> 1]
      [] project_type_ = "ambitious" ->
             [min_steps |-> 50, max_steps |-> 70, ideal_phases |-> 5, max_weeks |-> 4]
      [] OTHER ->   \* "medium", and the .get() default for any other type
             [min_steps |-> 35, max_steps |-> 55, ideal_phases |-> 5, max_weeks |-> 2]

\* What the code reads from a time_constraint string.
TimeConstraints == {"1 week", "1-2 weeks", "2 weeks", "3 weeks", "4 weeks", "10 days"}

TimeHas(tc, sub) ==
    CASE sub = "week" -> tc # "10 days"
      [] sub = "2" -> tc \in {"1-2 weeks", "2 weeks"}
      [] sub = "3" -> tc = "3 weeks"
      [] sub = "4" -> tc = "4 weeks"
      [] sub = "1-2 week" -> tc = "1-2 weeks"
      [] sub = "2 week" -> tc \in {"1-2 weeks", "2 weeks"}
      [] OTHER -> FALSE

TimeStartsWith(tc, pre) ==
    CASE pre = "1 " -> tc = "1 week"
      [] pre = "1 week" -> tc = "1 week"
      [] OTHER -> FALSE

weeks_available(tc) ==
    IF TimeHas(tc, "week")
    THEN IF TimeStartsWith(tc, "1 ") THEN 1
         ELSE IF TimeHas(tc, "2") THEN 2
         ELSE IF TimeHas(tc, "3") THEN 3
         ELSE IF TimeHas(tc, "4") THEN 4
         ELSE 2
    ELSE 2

Abs(n) == IF n < 0 THEN 0 - n ELSE n

evaluate_feasibility_for_project_type(p, ptype, tc) ==
    LET all == StepsOf(p.phases)
        total_steps == Len(all)
        phase_count == Len(p.phases)
        expected == type_expectations(ptype)
        deployment_steps ==
            Cardinality({k \in 1..total_steps :
                all[k].step.title \cap {"deploy", "production", "docker", "ci/cd"} # {}})
        advanced_features ==
            Cardinality({k \in 1..total_steps :
                all[k].step.title \cap
                    {"advanced", "optimization", "scale", "production", "testing"} # {}})
        ps == << <<total_steps < expected.min_steps, 3, "projects should have more steps">>,
                 <<total_steps >= expected.min_steps /\ total_steps > expected.max_steps, 2,
                   "steps may be too many">>,
                 <<Abs(phase_count - expected.ideal_phases) > 1, 1,
                   "projects typically have ~ideal phases">>,
                 <<weeks_available(tc) < expected.max_weeks, 2,
                   "projects typically need more weeks">>,
                 <<ptype = "toy" /\ deployment_steps > 2, 1,
                   "Toy projects should focus on core learning">>,
                 <<ptype = "ambitious" /\ advanced_features < 5, 2,
                   "Ambitious projects should include more advanced/production features">> >>
    IN  RubricScore("feasibility", Max0(10 - Points(ps)),
                    JoinOr(Fragments(ps), "Scope well-matched"), 6)

(***************************************************************************)
(* evaluator_agent.py                                                      *)
(***************************************************************************)
ambiguous_phrases == {"if needed", "consider", "optionally", "you may", "if desired",
                      "feel free to", "think about", "research", "look into"}

Note(kind, src) == [kind |-> kind, src |-> src]

\* The critical issue and the suggestion one rubric score contributes
\* (evaluator_agent.py:188-225): `near` is the bound of the elif, 0 if none.
\* variant: a failing score adds no critical issue
ScoreCritical_Silent(s, kind) == <<>>

ScoreCritical(s, kind) == IF ~passes(s) THEN <<Note(kind, s)>> ELSE <<>>

ScoreSuggestion(s, kind, near) ==
    IF passes(s) /\ s.score < near THEN <<Note(kind, s)>> ELSE <<>>

\* lines 171-177: the critical issues of the consistency report
StructuralCritical(consistency_report) ==
    LET issues == consistency_report.issues
    IN  IF has_errors(consistency_report)
        THEN <<Note("Structural errors", consistency_report.summary)>> \o
             SelectSeq([k \in 1..Len(issues) |-> Note(issues[k].severity, issues[k])],
                       LAMBDA n : n.kind = "error")
        ELSE <<>>

\* line 303: not step.teaching_guidance or len(step.teaching_guidance.strip()) < 30
\* variant: guidance counts as present from 20 characters on
lacks_guidance_From20(step) == step.teaching_guidance.len < 20

lacks_guidance(step) == step.teaching_guidance.len < 30

\* line 319: the overall approval decision
\* variant: the critical issues are ignored
ApprovalDecision_ScoresOnly(critical_issues, scores) ==
    \A c \in DOMAIN scores : passes(scores[c])

ApprovalDecision(critical_issues, scores) ==
    critical_issues = <<>> /\ \A c \in DOMAIN scores : passes(scores[c])

\* lines 179-182: the suggestions of the consistency report
ConsistencySuggestions(consistency_report) ==
    LET issues == consistency_report.issues
    IN  SelectSeq([k \in 1..Len(issues) |-> Note(issues[k].severity, issues[k])],
                  LAMBDA n : n.kind = "warning")

\* lines 188-223: a score that fails its threshold is a critical issue
RubricCritical(scores) ==
    ScoreCritical(scores.clarity, "Clarity issues") \o
    ScoreCritical(scores.balance, "Balance issues") \o
    ScoreCritical(scores.teaching_value, "Teaching clarity issues") \o
    ScoreCritical(scores.technical_depth, "Technical depth issues") \o
    ScoreCritical(scores.feasibility, "SCOPE MISMATCH")

\* lines 197-225: the elif branches; clarity has none
RubricSuggestions(scores) ==
    ScoreSuggestion(scores.balance, "Balance could be improved", 8) \o
    ScoreSuggestion(scores.teaching_value, "Teaching clarity", 8) \o
    ScoreSuggestion(scores.technical_depth, "Technical depth", 7) \o
    ScoreSuggestion(scores.feasibility, "Feasibility concern", 7)

NoteIf(cond, kind, n) == IF cond THEN <<Note(kind, [n |-> n])>> ELSE <<>>

\* lines 229-241
ArchitectureNotes(phases) ==
    LET n == Len(phases)
        phase_lengths == {Len(phases[k].steps) : k \in {j \in 1..n : phases[j].steps # <<>>}}
        wide == \E a \in phase_lengths : \E b \in phase_lengths : a - b > 6
        duplicate_phase_names == Cardinality({phases[k].name.id : k \in 1..n}) # n
    IN  NoteIf(wide, "Phase sizes vary widely", 0) \o
        NoteIf(duplicate_phase_names, "Duplicate phase names detected", 0)

\* lines 244, 251-252, 257-258: the scope conditions
TooTrivialFor(total_steps) == total_steps < 20

OvershootOneWeek(total_steps, tc) ==
    (TimeStartsWith(tc, "1 week") \/ tc = "1 week") /\ total_steps > 40

OvershootTwoWeeks(total_steps, tc) ==
    /\ ~(TimeStartsWith(tc, "1 week") \/ tc = "1 week")
    /\ TimeHas(tc, "1-2 week") \/ TimeHas(tc, "2 week")
    /\ total_steps > 60

\* lines 243-262: critical issues of the scope checks
ScopeCritical(total_steps, tc) ==
    NoteIf(TooTrivialFor(total_steps), "Plan is too trivial", total_steps) \o
    NoteIf(OvershootOneWeek(total_steps, tc), "Plan is too ambitious for 1 week", total_steps) \o
    NoteIf(OvershootTwoWeeks(total_steps, tc), "Plan is too ambitious for 2 weeks", total_steps)

\* lines 248, 256, 262
PerformanceAlerts(total_steps, tc) ==
    NoteIf(TooTrivialFor(total_steps), "Increase the step count", 0) \o
    NoteIf(OvershootOneWeek(total_steps, tc), "Scope overshoot for 1 week timeline", 0) \o
    NoteIf(OvershootTwoWeeks(total_steps, tc), "Scope overshoot for 2 week timeline", 0)

\* lines 265-270
NamingFeedback(phases) ==
    IF phases = <<>> THEN "None"
    ELSE IF \E k \in 1..Len(phases) : phases[k].name.upper
    THEN "Phase names use ALL CAPS"
    ELSE IF \E k \in 1..Len(phases) : phases[k].name.words < 2
    THEN "Phase names look too short"
    ELSE "None"

\* lines 273-277: title + description + teaching_guidance, lower-cased
StepText(step) == step.title \cup step.description \cup step.teaching_guidance.kw

\* lines 279-280
\* variant: only titles and descriptions are searched
TestRecommendations_TitlesOnly(all) ==
    NoteIf(all # <<>> /\
           ~\E k \in 1..Len(all) : "test" \in all[k].step.title \cup all[k].step.description,
           "Add a dedicated testing/validation step", 0)

TestRecommendations(all) ==
    NoteIf(all # <<>> /\ ~\E k \in 1..Len(all) : "test" \in StepText(all[k].step),
           "Add a dedicated testing/validation step", 0)

\* lines 282-283
ResilienceRisks(all) ==
    NoteIf(all # <<>> /\
           ~\E k \in 1..Len(all) :
                StepText(all[k].step) \cap {"error", "exception", "logging", "retry"} # {},
           "No step mentions error handling or logging", 0)

\* lines 286-287
NotesSuggestion(teaching_notes) ==
    NoteIf(teaching_notes.len = 0 \/ teaching_notes.stripped < 50,
           "Global teaching notes are missing or too brief", 0)

\* lines 297-300: the steps whose title or description holds an ambiguous phrase
AmbiguousSteps(all) ==
    SelectSeq(all, LAMBDA e : (e.step.title \cup e.step.description) \cap ambiguous_phrases # {})

\* lines 303-306: one critical issue per step that lacks guidance
\* variant: one critical issue for the plan, however many steps lack guidance
GuidanceCritical_OncePerPlan(all) ==
    LET lacking == SelectSeq(all, LAMBDA e : lacks_guidance(e.step))
    IN  IF lacking = <<>> THEN <<>>
        ELSE <<Note("lacks implementation guidance", [n |-> lacking[1].step.index])>>

GuidanceCritical(all) ==
    LET lacking == SelectSeq(all, LAMBDA e : lacks_guidance(e.step))
    IN  [k \in 1..Len(lacking) |->
            Note("lacks implementation guidance", [n |-> lacking[k].step.index])]

\* lines 308-313
AmbiguityCritical(ambiguous_steps) ==
    NoteIf(Len(ambiguous_steps) > 5, "Multiple steps contain ambiguous language",
           Len(ambiguous_steps))

\* lines 314-316
AmbiguitySuggestions(ambiguous_steps) ==
    IF ambiguous_steps # <<>> /\ ~(Len(ambiguous_steps) > 5)
    THEN [k \in 1..Len(ambiguous_steps) |->
             Note("Autonomous execution concern", [n |-> ambiguous_steps[k].step.index])]
    ELSE <<>>

\* lines 328-359: the approved report lists the suggestions, the rejected one
\* every critical issue; both list the five scores
Feedback(approved, scores, critical_issues, suggestions) ==
    IF approved
    THEN [head |-> "Plan approved!", scores |-> scores, critical |-> <<>>,
          suggestions |-> suggestions]
    ELSE [head |-> "Plan needs revision.", scores |-> scores,
          critical |-> critical_issues, suggestions |-> <<>>]

\* lines 361-373
EvaluationResult(approved, scores, consistency_report, critical_issues, suggestions, p, all, tc) ==
    [approved |-> approved,
     scores |-> scores,
     consistency_report |-> consistency_report,
     feedback |-> Feedback(approved, scores, critical_issues, suggestions),
     critical_issues |-> critical_issues,
     suggestions |-> suggestions,
     architecture_notes |-> ArchitectureNotes(p.phases),
     resilience_risks |-> ResilienceRisks(all),
     performance_alerts |-> PerformanceAlerts(Len(all), tc),
     test_recommendations |-> TestRecommendations(all),
     naming_feedback |-> NamingFeedback(p.phases)]

\* lines 318-373
DecideAndReport(scores, consistency_report, critical_issues, suggestions, p, all, tc) ==
    EvaluationResult(ApprovalDecision(critical_issues, scores), scores, consistency_report,
                     critical_issues, suggestions, p, all, tc)

\* lines 171-316: critical issues and suggestions in the order they are appended
CollectFindings(scores, consistency_report, ambiguous_steps, p, all, tc) ==
    DecideAndReport(scores, consistency_report,
        StructuralCritical(consistency_report) \o RubricCritical(scores) \o
            ScopeCritical(Len(all), tc) \o GuidanceCritical(all) \o
            AmbiguityCritical(ambiguous_steps),
        ConsistencySuggestions(consistency_report) \o RubricSuggestions(scores) \o
            NotesSuggestion(p.teaching_notes) \o AmbiguitySuggestions(ambiguous_steps),
        p, all, tc)

\* lines 184-220: the five rubric scores; an exception of a scoring function
\* leaves evaluate_plan_quality
RunRubrics(p, skill, ptype, tc, consistency_report, teaching_score, all) ==
    IF IsRaised(teaching_score)
    THEN teaching_score
    ELSE CollectFindings(
             [clarity |-> evaluate_concept_clarity(p.idea.refined_summary),
              balance |-> evaluate_phase_balance(p.phases),
              teaching_value |-> teaching_score,
              technical_depth |-> evaluate_technical_depth(p, skill),
              feasibility |-> evaluate_feasibility_for_project_type(p, ptype, tc)],
             consistency_report, AmbiguousSteps(all), p, all, tc)

evaluate_plan_quality(p, skill, ptype, tc) ==
    IF "phases" \notin DOMAIN p
    THEN Raised("AttributeError")      \* plan.phases at line 192
    ELSE RunRubrics(p, skill, ptype, tc, validate_project_plan(p),
                    evaluate_teaching_clarity(p, skill), StepsOf(p.phases))

\* evaluate_project_plan: the heuristic evaluation, returned unchanged (the
\* use_llm branch is `pass`).
evaluate_project_plan(p, skill, ptype, tc) == evaluate_plan_quality(p, skill, ptype, tc)

(***************************************************************************)
(* Inputs: plans                                                           *)
(***************************************************************************)
Text(kw) == kw

Guidance(len, kw) == [len |-> len, kw |-> kw]

\* project_models.py:103-110, Step.__setattr__: a write to either guidance
\* field is mirrored to the other one
\* variant: a plain attribute write, nothing mirrored
SetAttr_NoMirror(step, name, value) == [step EXCEPT ![name] = value]

SetAttr(step, name, value) ==
    IF name \in {"teaching_guidance", "what_you_learn"}
    THEN [step EXCEPT !.teaching_guidance = value, !.what_you_learn = value]
    ELSE [step EXCEPT ![name] = value]

Truthy(text) == text.len > 0

\* project_models.py:95-101, Step.__post_init__
PostInit(step) ==
    IF Truthy(step.what_you_learn) /\ ~Truthy(step.teaching_guidance)
    THEN [step EXCEPT !.teaching_guidance = step.what_you_learn]
    ELSE IF Truthy(step.teaching_guidance) /\ ~Truthy(step.what_you_learn)
    THEN [step EXCEPT !.what_you_learn = step.teaching_guidance]
    ELSE step

\* project_models.py:88-93: the dataclass __init__ assigns the fields in
\* declaration order, each through __setattr__ (what_you_learn last), then
\* calls __post_init__.
Step(index, title, description, teaching_guidance, dependencies, what_you_learn) ==
    PostInit(
        SetAttr(
            SetAttr([index |-> index, title |-> title, description |-> description,
                     teaching_guidance |-> Guidance(0, {}), dependencies |-> dependencies,
                     what_you_learn |-> Guidance(0, {})],
                    "teaching_guidance", teaching_guidance),
            "what_you_learn", what_you_learn))

PhaseName(id, kw, upper, words) == [id |-> id, kw |-> kw, upper |-> upper, words |-> words]

Phase(index, name, steps) == [index |-> index, name |-> name, steps |-> steps]

Framework(name, has) == [name |-> name, has |-> has]

GoodIdea == [refined_summary |-> [words |-> 80, vague |-> 0, upper |-> TRUE]]

GoodFramework == [frontend |-> Framework("Streamlit", {"streamlit"}),
                  backend |-> Framework("FastAPI", {}),
                  storage |-> Framework("", {})]

ProjectPlan(idea, framework, phases, teaching_notes) ==
    [idea |-> idea, framework |-> framework, phases |-> phases,
     teaching_notes |-> teaching_notes]

Notes(len) == [len |-> len, stripped |-> len]

\* Small plans, enumerated: up to MaxSteps steps with any index in 1..MaxIndex
\* and at most one dependency in 0..MaxIndex+1, the first `cut` steps in phase
\* 1 and the others in phase 2 of n phases.
SmallDeps == {<<>>} \cup {<<d>> : d \in 0..(MaxIndex + 1)}

SmallStep(index, deps) ==
    Step(index, {"test"}, {"error"}, Guidance(40, {}), deps, Guidance(40, {}))

SmallStepLists ==
    UNION {[1..m -> {SmallStep(i, d) : i \in 1..MaxIndex, d \in SmallDeps}] : m \in 0..MaxSteps}

PlainName(k) == PhaseName(<<"Phase", k>>, {}, FALSE, 2)

SmallPhases(n, steps, cut) ==
    [k \in 1..n |->
        Phase(k, PlainName(k),
              IF n = 1 THEN steps
              ELSE IF k = 1 THEN SubSeq(steps, 1, cut)
              ELSE IF k = 2 THEN SubSeq(steps, cut + 1, Len(steps))
              ELSE <<>>)]

SmallPlans ==
    {ProjectPlan(GoodIdea, GoodFramework, SmallPhases(n, steps, cut), Notes(300)) :
        <<n, steps, cut>> \in
            {t \in (0..MaxPhases) \X SmallStepLists \X (0..MaxSteps) :
                /\ t[3] <= Len(t[2])
                /\ (t[1] = 0 => t[2] = <<>>)
                /\ (t[1] = 1 => t[3] = 0)}}

(***************************************************************************)
(* Specification of the consistency checks: a plan is drawn, one check is  *)
(* applied to it.                                                          *)
(***************************************************************************)
LoopIdle ==
    /\ pc = "idle"
    /\ max_iterations = 0
    /\ iteration = 0
    /\ project_plan = NoValue
    /\ evaluation_result = NoValue
    /\ returned = NoValue
    /\ stats = [drafts |-> 0, evals |-> 0, forced |-> 0, timeouts |-> 0]
    /\ the_step = NoValue
    /\ step_args = NoValue

InitChecks ==
    /\ plan \in SmallPlans
    /\ skill_level = "intermediate"
    /\ project_type = "medium"
    /\ time_constraint = "1-2 weeks"
    /\ expected_count = DefaultExpectedCount
    /\ op = "none"
    /\ report = NoValue
    /\ result = NoValue
    /\ LoopIdle

CheckPhaseCount ==
    /\ op = "none"
    /\ \E e \in 0..MaxPhases :
          /\ expected_count' = e
          /\ report' = check_phase_count(plan.phases, e)
    /\ op' = "check_phase_count"
    /\ UNCHANGED <<plan, skill_level, project_type, time_constraint, result, pc,
                   max_iterations, iteration, project_plan, evaluation_result,
                   returned, stats, the_step, step_args>>

CheckStepNumbering ==
    /\ op = "none"
    /\ report' = check_step_numbering(plan.phases)
    /\ op' = "check_step_numbering"
    /\ UNCHANGED <<plan, skill_level, project_type, time_constraint, expected_count,
                   result, pc, max_iterations, iteration, project_plan,
                   evaluation_result, returned, stats, the_step, step_args>>

CheckDependencies ==
    /\ op = "none"
    /\ report' = check_dependencies(plan.phases)
    /\ op' = "check_dependencies"
    /\ UNCHANGED <<plan, skill_level, project_type, time_constraint, expected_count,
                   result, pc, max_iterations, iteration, project_plan,
                   evaluation_result, returned, stats, the_step, step_args>>

Validate ==
    /\ op = "none"
    /\ report' = validate_project_plan(plan)
    /\ op' = "validate"
    /\ UNCHANGED <<plan, skill_level, project_type, time_constraint, expected_count,
                   result, pc, max_iterations, iteration, project_plan,
                   evaluation_result, returned, stats, the_step, step_args>>

\* line 218: validate_project_plan(plan) declares no expected count; a call
\* that passes one is a TypeError.
ValidateExpecting ==
    /\ op = "none"
    /\ \E e \in 0..MaxPhases : expected_count' = e
    /\ report' = Raised("TypeError")
    /\ op' = "validate_expecting"
    /\ UNCHANGED <<plan, skill_level, project_type, time_constraint, result, pc,
                   max_iterations, iteration, project_plan, evaluation_result,
                   returned, stats, the_step, step_args>>

NextChecks ==
    \/ CheckPhaseCount
    \/ CheckStepNumbering
    \/ CheckDependencies
    \/ Validate
    \/ ValidateExpecting

SpecChecks == InitChecks /\ [][NextChecks]_vars

(***************************************************************************)
(* Inputs: drafts. A draft is a regular plan of n phases with k steps      *)
(* each, numbered 1..n*k, that deviates from it in at most one structural  *)
(* and one content respect.                                                *)
(***************************************************************************)
SkillLevels == {"beginner", "intermediate", "advanced"}

ProjectTypes == {"toy", "medium", "ambitious"}

StepsPerPhase == {3, 4, 10}

Structural == {"none", "duplicate", "gap", "forward", "self", "missing", "valid", "uneven"}

Content == {"none", "no_guidance", "short_guidance", "thin_guidance", "ambiguous_1",
            "ambiguous_6", "bare", "no_notes", "long_notes", "brief_summary",
            "plain_names", "same_names", "test_in_guidance"}

\* The guidance text a draft gives its g-th step of m.
DraftGuidance(g, m, cd) ==
    Guidance(IF cd = "no_guidance" /\ g = 1 THEN 0
             ELSE IF cd = "short_guidance" /\ g = 1 THEN 25
             ELSE IF cd = "thin_guidance" /\ 2 * g > m THEN 10
             ELSE 40,
             IF cd = "test_in_guidance" THEN {"test", "retry"} ELSE {})

\* `both`: the step is built with teaching_guidance and what_you_learn both
\* given; otherwise with teaching_guidance only, as the pipeline's parsers do
\* (teacher_agent.py:290-296).
DraftStep(g, m, sd, cd, both) ==
    Step(IF sd = "duplicate" /\ g = 2 THEN 1
         ELSE IF sd = "gap" /\ g = m THEN m + 1
         ELSE g,
         {},
         (IF cd \in {"bare", "test_in_guidance"} THEN {}
          ELSE {"test", "error", "architecture"}) \cup
         (IF (cd = "ambiguous_1" /\ g = 1) \/ (cd = "ambiguous_6" /\ g <= 6)
          THEN {"consider"} ELSE {}),
         DraftGuidance(g, m, cd),
         IF sd = "forward" /\ g = 1 THEN <<2>>
         ELSE IF sd = "self" /\ g = 2 THEN <<2>>
         ELSE IF sd = "missing" /\ g = 2 THEN <<m + 5>>
         ELSE IF sd = "valid" /\ g = 2 THEN <<1>>
         ELSE <<>>,
         IF both THEN DraftGuidance(g, m, cd) ELSE Guidance(0, {}))

DraftName(p, n, cd) ==
    IF cd = "same_names" THEN PhaseName(<<"Core Features", 0>>, {}, FALSE, 2)
    ELSE IF cd = "plain_names" THEN PlainName(p)
    ELSE IF p = 1 THEN PhaseName(<<"Setup & Foundation", 0>>, {"setup", "foundation"}, FALSE, 3)
    ELSE IF p = n THEN PhaseName(<<"Advanced Testing", 0>>, {"advanced", "testing", "test"}, FALSE, 2)
    ELSE PlainName(p)

Draft(n, k, sd, cd, both) ==
    ProjectPlan(
        IF cd = "brief_summary"
        THEN [refined_summary |-> [words |-> 5, vague |-> 0, upper |-> TRUE]]
        ELSE GoodIdea,
        GoodFramework,
        [p \in 1..n |->
            Phase(p, DraftName(p, n, cd),
                  \* "uneven": the last phase has 7 steps more than the others
                  [j \in 1..(IF sd = "uneven" /\ p = n THEN k + 7 ELSE k) |->
                      DraftStep((p - 1) * k + j, n * k, sd, cd, both)])],
        IF cd = "no_notes" THEN Notes(0)
        ELSE IF cd = "long_notes" THEN Notes(600)
        ELSE Notes(300))

DraftPlans ==
    {Draft(n, k, sd, cd, TRUE) : n \in 3..MaxPhases, k \in StepsPerPhase,
                                 sd \in Structural, cd \in Content}

(***************************************************************************)
(* Specification of the evaluation: a draft and the arguments are drawn,   *)
(* evaluate_plan_quality is applied.                                       *)
(***************************************************************************)
InitEval ==
    /\ plan \in DraftPlans
    /\ skill_level \in SkillLevels
    /\ project_type \in ProjectTypes
    /\ time_constraint \in TimeConstraints
    /\ expected_count = DefaultExpectedCount
    /\ op = "none"
    /\ report = NoValue
    /\ result = NoValue
    /\ LoopIdle

Evaluate ==
    /\ op = "none"
    /\ result' = evaluate_plan_quality(plan, skill_level, project_type, time_constraint)
    /\ op' = "evaluate"
    /\ UNCHANGED <<plan, skill_level, project_type, time_constraint, expected_count,
                   report, pc, max_iterations, iteration, project_plan,
                   evaluation_result, returned, stats, the_step, step_args>>

NextEval == Evaluate

SpecEval == InitEval /\ [][NextEval]_vars

(***************************************************************************)
(* Malformed input. A plan object may lack an attribute the code reads;     *)
(* reading it raises AttributeError at the line that reads it.              *)
(***************************************************************************)
Without(r, f) == [x \in DOMAIN r \ {f} |-> r[x]]

Has(r, f) == f \in DOMAIN r

\* A dependency value that is no number. `dep_index not in all_step_indices`
\* compares it with == to every index, and it equals none, so the ordering
\* test of the elif is never reached with it; it is written as a number that
\* no step has as its index.
NotANumber == 0 - 1

Defects ==
    {"none", "no_phases", "empty_phases", "phase_no_steps", "step_no_index",
     "step_no_dependencies", "step_no_title", "non_numeric_dependency"}

\* The plan p with one defect d, in its first phase or that phase's second step
Damage(p, d) ==
    LET setStep(st) == [p EXCEPT !.phases[1].steps[2] = st]
        step == p.phases[1].steps[2]
    IN  CASE d = "no_phases" -> Without(p, "phases")
          [] d = "empty_phases" -> [p EXCEPT !.phases = <<>>]
          [] d = "phase_no_steps" -> [p EXCEPT !.phases[1] = Without(p.phases[1], "steps")]
          [] d = "step_no_index" -> setStep(Without(step, "index"))
          [] d = "step_no_dependencies" -> setStep(Without(step, "dependencies"))
          [] d = "step_no_title" -> setStep(Without(step, "title"))
          [] d = "non_numeric_dependency" ->
                 setStep([step EXCEPT !.dependencies = <<NotANumber>>])
          [] OTHER -> p

InputPlans ==
    {Damage(Draft(DefaultExpectedCount, k, sd, "none", TRUE), d) :
        k \in {4, 10}, sd \in {"none", "duplicate", "gap", "missing"}, d \in Defects}

\* consistency_tool.py:124-132 and 189-208: the attributes the two step checks
\* read: phase.steps, step.index and step.dependencies of every step, and
\* phase.index and step.title of every step an issue is located at.
ChecksReadMissingAttribute(phases) ==
    /\ phases # <<>>
    /\ \/ \E k \in 1..Len(phases) : ~Has(phases[k], "steps")
       \/ \E k \in 1..Len(phases) : \E j \in 1..Len(phases[k].steps) :
              ~Has(phases[k].steps[j], "index") \/ ~Has(phases[k].steps[j], "dependencies")
       \/ \E n \in 1..Len(StepsOf(phases)) :
              \E e \in {StepsOf(phases)[n]} :
                 /\ ~Has(e.step, "title") \/ ~Has(e.phase, "index")
                 /\ \/ e.step.index # n
                    \/ \E j \in 1..Len(e.step.dependencies) :
                          \/ ~DependencyExists(e.step.dependencies[j],
                                               Elems(StepIndices(phases)))
                          \/ NotEarlier(e.step.dependencies[j], e.step.index)

\* validate_project_plan applied to any plan object
validate_call(p) ==
    IF Has(p, "phases") /\ ChecksReadMissingAttribute(p.phases)
    THEN Raised("AttributeError")
    ELSE validate_project_plan(p)

\* evaluator_agent.py:169-300: the attributes the evaluation reads after
\* validate: plan.phases (line 192) and every step's title (line 274)
EvaluationReadsMissingAttribute(p) ==
    \/ ~Has(p, "phases")
    \/ \E k \in 1..Len(p.phases) : \E j \in 1..Len(p.phases[k].steps) :
           ~Has(p.phases[k].steps[j], "title")

\* evaluate_plan_quality applied to any plan object
evaluate_call(p, skill, ptype, tc) ==
    IF IsRaised(validate_call(p)) THEN validate_call(p)
    ELSE IF EvaluationReadsMissingAttribute(p) THEN Raised("AttributeError")
    ELSE evaluate_plan_quality(p, skill, ptype, tc)

(***************************************************************************)
(* Specification of the public calls on any input: a plan, well-formed or   *)
(* not, is drawn and validate or evaluate is applied.                       *)
(***************************************************************************)
InitInputs ==
    /\ plan \in InputPlans
    /\ skill_level \in SkillLevels
    /\ project_type \in ProjectTypes
    /\ time_constraint \in {"1 week", "2 weeks"}
    /\ expected_count = DefaultExpectedCount
    /\ op = "none"
    /\ report = NoValue
    /\ result = NoValue
    /\ LoopIdle

\* The plan object after a call. validate_project_plan and
\* evaluate_plan_quality, and the checks and scoring functions they call, read
\* plan, phase and step attributes and assign none: the indices and texts
\* they collect go into lists of their own (consistency_tool.py:126, 186;
\* evaluator_agent.py:273-277).
\* variant: the numbering check repairs the indices to 1..n as it goes
PlanAfter_Renumbered(p) ==
    IF Has(p, "phases") /\ ~ChecksReadMissingAttribute(p.phases)
    THEN [p EXCEPT !.phases =
            [k \in 1..Len(p.phases) |->
                [p.phases[k] EXCEPT !.steps =
                    [j \in 1..Len(p.phases[k].steps) |->
                        [p.phases[k].steps[j] EXCEPT !.index =
                            SumSeq([h \in 1..(k - 1) |-> Len(p.phases[h].steps)]) + j]]]]]
    ELSE p

PlanAfter(p) == p

ValidateInput ==
    /\ op = "none"
    /\ report' = validate_call(plan)
    /\ op' = "validate"
    /\ plan' = PlanAfter(plan)
    /\ UNCHANGED <<skill_level, project_type, time_constraint, expected_count,
                   result, pc, max_iterations, iteration, project_plan,
                   evaluation_result, returned, stats, the_step, step_args>>

EvaluateInput ==
    /\ op = "none"
    /\ \E r \in {evaluate_call(plan, skill_level, project_type, time_constraint)} :
          /\ result' = r
          /\ report' = IF IsRaised(r) THEN NoValue ELSE r.consistency_report
    /\ op' = "evaluate"
    /\ plan' = PlanAfter(plan)
    /\ UNCHANGED <<skill_level, project_type, time_constraint, expected_count,
                   pc, max_iterations, iteration, project_plan,
                   evaluation_result, returned, stats, the_step, step_args>>

NextInputs == ValidateInput \/ EvaluateInput

SpecInputs == InitInputs /\ [][NextInputs]_vars

(***************************************************************************)
(* Specification of the scoring functions: a plan and the arguments are    *)
(* drawn and one of the five functions of rubric_tool.py is applied.       *)
(***************************************************************************)
\* Concept texts by what evaluate_concept_clarity reads: the word count, how
\* many of the five vague words occur (as substrings, so one word can hold
\* several) and whether a character is upper case. The empty text has none.
ConceptWords == {0, 3, 9, 10, 50, 201}

ConceptTexts ==
    {[words |-> w, vague |-> v, upper |-> u] :
        w \in ConceptWords, v \in {0, 3}, u \in BOOLEAN} \
    {t \in [words : {0}, vague : {0, 3}, upper : BOOLEAN] : t.vague # 0 \/ t.upper}

Frameworks ==
    {GoodFramework,
     [frontend |-> Framework("React", {"React"}),
      backend |-> Framework("Django", {"Django"}),
      storage |-> Framework("PostgreSQL", {"PostgreSQL"})],
     [frontend |-> Framework("Streamlit", {"streamlit"}),
      backend |-> Framework("", {}),
      storage |-> Framework("JSON files", {"json"})]}

ScoreContent == {"none", "long_notes", "plain_names", "bare"}

\* per-phase step counts: balanced, at the boundaries 40 and 60 of the total,
\* 3 and 15 of a phase and 16 of the variance, and the list of the
\* repository's test of poor balance
StepCountProfiles ==
    {<<10, 10, 10, 10, 10>>, <<8, 8, 8, 8, 8>>, <<12, 12, 12, 12, 12>>,
     <<12, 12, 12, 12, 13>>, <<3, 8, 8, 8, 13>>, <<2, 15, 15, 15, 13>>,
     <<5, 5, 5, 5, 15>>, <<4, 4, 4, 4, 15>>, <<5, 5, 5, 5, 16>>,
     <<1, 20, 0>>, <<10, 10, 10, 10>>, <<9, 9, 9, 9, 9, 9>>, <<0>>}

PlanWithCounts(counts) ==
    [Draft(DefaultExpectedCount, 10, "none", "none", TRUE) EXCEPT !.phases =
        [p \in 1..Len(counts) |->
            Phase(p, DraftName(p, Len(counts), "none"),
                  [j \in 1..counts[p] |->
                      DraftStep(SumSeq(SubSeq(counts, 1, p - 1)) + j, SumSeq(counts),
                                "none", "none", TRUE)])]]

ScorePlans ==
    {[Draft(DefaultExpectedCount, 10, "none", "none", TRUE)
         EXCEPT !.idea.refined_summary = t] : t \in ConceptTexts}
    \cup
    {[Draft(n, k, "none", cd, both) EXCEPT !.framework = fw] :
        n \in {1, 3, DefaultExpectedCount}, k \in {2, 10, 16}, cd \in ScoreContent,
        both \in BOOLEAN, fw \in Frameworks}
    \cup
    {[Draft(DefaultExpectedCount, 10, "none", "none", TRUE) EXCEPT !.phases = <<>>]}
    \cup
    {PlanWithCounts(c) : c \in StepCountProfiles}

ScoreOps == {"clarity", "balance", "teaching_clarity", "technical_depth", "feasibility"}

InitScores ==
    /\ plan \in ScorePlans
    /\ skill_level \in SkillLevels
    /\ project_type \in ProjectTypes
    /\ time_constraint \in {"1 week", "4 weeks"}
    /\ expected_count = DefaultExpectedCount
    /\ op = "none"
    /\ report = NoValue
    /\ result = NoValue
    /\ LoopIdle

ScoreClarity ==
    /\ op = "none"
    /\ result' = evaluate_concept_clarity(plan.idea.refined_summary)
    /\ op' = "clarity"
    /\ UNCHANGED <<plan, skill_level, project_type, time_constraint, expected_count,
                   report, pc, max_iterations, iteration, project_plan,
                   evaluation_result, returned, stats, the_step, step_args>>

ScoreBalance ==
    /\ op = "none"
    /\ result' = evaluate_phase_balance(plan.phases)
    /\ op' = "balance"
    /\ UNCHANGED <<plan, skill_level, project_type, time_constraint, expected_count,
                   report, pc, max_iterations, iteration, project_plan,
                   evaluation_result, returned, stats, the_step, step_args>>

ScoreTeachingClarity ==
    /\ op = "none"
    /\ result' = evaluate_teaching_clarity(plan, skill_level)
    /\ op' = "teaching_clarity"
    /\ UNCHANGED <<plan, skill_level, project_type, time_constraint, expected_count,
                   report, pc, max_iterations, iteration, project_plan,
                   evaluation_result, returned, stats, the_step, step_args>>

ScoreTechnicalDepth ==
    /\ op = "none"
    /\ result' = evaluate_technical_depth(plan, skill_level)
    /\ op' = "technical_depth"
    /\ UNCHANGED <<plan, skill_level, project_type, time_constraint, expected_count,
                   report, pc, max_iterations, iteration, project_plan,
                   evaluation_result, returned, stats, the_step, step_args>>

ScoreFeasibility ==
    /\ op = "none"
    /\ result' = evaluate_feasibility_for_project_type(plan, project_type, time_constraint)
    /\ op' = "feasibility"
    /\ UNCHANGED <<plan, skill_level, project_type, time_constraint, expected_count,
                   report, pc, max_iterations, iteration, project_plan,
                   evaluation_result, returned, stats, the_step, step_args>>

NextScores ==
    \/ ScoreClarity
    \/ ScoreBalance
    \/ ScoreTeachingClarity
    \/ ScoreTechnicalDepth
    \/ ScoreFeasibility

SpecScores == InitScores /\ [][NextScores]_vars

(***************************************************************************)
(* Specification of a Step object: it is constructed with any combination  *)
(* of the two guidance arguments and then written to.                      *)
(***************************************************************************)
\* guidance texts, the empty string among them
GuidanceTexts == {Guidance(n, {}) : n \in {0, 10, 25, 40}}

\* an argument left out of the call takes the field's default, ""
Absent == NoValue

ArgOrDefault(a) == IF a = Absent THEN Guidance(0, {}) ELSE a

StepTitles == {{}, {"test"}}

InitStep ==
    /\ plan = NoValue
    /\ skill_level = "intermediate"
    /\ project_type = "medium"
    /\ time_constraint = "1-2 weeks"
    /\ expected_count = DefaultExpectedCount
    /\ op = "none"
    /\ report = NoValue
    /\ result = NoValue
    /\ LoopIdle

\* Step(index=1, title=..., teaching_guidance=g, what_you_learn=w), either
\* keyword possibly left out
ConstructStep ==
    /\ the_step = NoValue
    /\ \E g \in GuidanceTexts \cup {Absent} : \E w \in GuidanceTexts \cup {Absent} :
          /\ the_step' = Step(1, {}, {}, ArgOrDefault(g), <<>>, ArgOrDefault(w))
          /\ step_args' = [teaching_guidance |-> g, what_you_learn |-> w]
    /\ op' = "construct"
    /\ UNCHANGED <<plan, skill_level, project_type, time_constraint, expected_count,
                   report, result, pc, max_iterations, iteration, project_plan,
                   evaluation_result, returned, stats>>

\* step.teaching_guidance = v
WriteTeachingGuidance ==
    /\ the_step # NoValue
    /\ \E v \in GuidanceTexts : the_step' = SetAttr(the_step, "teaching_guidance", v)
    /\ op' = "write_teaching_guidance"
    /\ UNCHANGED <<plan, skill_level, project_type, time_constraint, expected_count,
                   report, result, pc, max_iterations, iteration, project_plan,
                   evaluation_result, returned, stats, step_args>>

\* step.what_you_learn = v
WriteWhatYouLearn ==
    /\ the_step # NoValue
    /\ \E v \in GuidanceTexts : the_step' = SetAttr(the_step, "what_you_learn", v)
    /\ op' = "write_what_you_learn"
    /\ UNCHANGED <<plan, skill_level, project_type, time_constraint, expected_count,
                   report, result, pc, max_iterations, iteration, project_plan,
                   evaluation_result, returned, stats, step_args>>

\* step.title = v, a write to another field
WriteTitle ==
    /\ the_step # NoValue
    /\ \E v \in StepTitles : the_step' = SetAttr(the_step, "title", v)
    /\ op' = "write_title"
    /\ UNCHANGED <<plan, skill_level, project_type, time_constraint, expected_count,
                   report, result, pc, max_iterations, iteration, project_plan,
                   evaluation_result, returned, stats, step_args>>

NextStep ==
    \/ ConstructStep
    \/ WriteTeachingGuidance
    \/ WriteWhatYouLearn
    \/ WriteTitle

SpecStep == InitStep /\ [][NextStep]_vars

(***************************************************************************)
(* crew_config.py: the refinement loop of create_full_plan_crew            *)
(***************************************************************************)
\* line 326: while iteration <= max_iterations
\* variant: the body runs once before the budget is looked at
LoopCondition_BodyFirst(it, max) == it = 1 \/ it <= max

LoopCondition(it, max) == it <= max

\* line 408: if evaluation_result.approved
\* variant: every verdict leaves the loop
VerdictApproved_Always(e) == TRUE

VerdictApproved(e) == e.approved

\* variant: one retry too many
HasBudget_Inclusive(it, max) == it <= max

\* variant: the budget ends one iteration early
HasBudget_OneShort(it, max) == it + 1 < max

\* line 413: elif iteration < max_iterations
HasBudget(it, max) == it < max

\* line 404: evaluate_project_plan(project_plan, skill_level) leaves
\* project_type and time_constraint at their defaults
LoopEvaluation(p, skill) == evaluate_project_plan(p, skill, "medium", "1-2 weeks")

\* The drafts the loop receives: parse_teaching_enrichment_result builds every
\* step as Step(..., teaching_guidance=..., dependencies=...).
LoopDrafts ==
    {Draft(n, k, sd, cd, FALSE) : n \in {3, DefaultExpectedCount}, k \in {4, 10},
                                  sd \in {"none", "forward", "duplicate"},
                                  cd \in {"none", "long_notes", "ambiguous_6", "bare"}}

InitLoop ==
    /\ plan = NoValue
    /\ skill_level \in SkillLevels
    /\ project_type = "medium"
    /\ time_constraint = "1-2 weeks"
    /\ expected_count = DefaultExpectedCount
    /\ op = "none"
    /\ report = NoValue
    /\ result = NoValue
    /\ pc = "while"
    /\ max_iterations \in (0 - 1)..MaxIter
    /\ iteration = 1                       \* line 322
    /\ project_plan = NoValue              \* line 323
    /\ evaluation_result = NoValue         \* line 324
    /\ returned = NoValue
    /\ stats = [drafts |-> 0, evals |-> 0, forced |-> 0, timeouts |-> 0]
    /\ the_step = NoValue
    /\ step_args = NoValue

Inputs == <<plan, skill_level, project_type, time_constraint, expected_count, op,
            report, result, max_iterations, the_step, step_args>>

\* line 326
LoopTest ==
    /\ pc = "while"
    /\ pc' = IF LoopCondition(iteration, max_iterations) THEN "draft" ELSE "return"
    /\ UNCHANGED <<Inputs, iteration, project_plan, evaluation_result, returned, stats>>

\* lines 329-392: phase design, teaching enrichment, ProjectPlan(...)
RequestDraft ==
    /\ pc = "draft"
    /\ \E d \in LoopDrafts : project_plan' = d
    /\ stats' = [stats EXCEPT !.drafts = @ + 1]
    /\ pc' = "evaluate"
    /\ UNCHANGED <<Inputs, iteration, evaluation_result, returned>>

\* lines 344, 369: task.execute() is called bare; a timeout of the generation
\* call surfaces as an exception that nothing in the loop catches.
GenerationTimesOut ==
    /\ pc = "draft"
    /\ stats' = [stats EXCEPT !.timeouts = @ + 1]
    /\ pc' = "aborted"
    /\ UNCHANGED <<Inputs, iteration, project_plan, evaluation_result, returned>>

\* line 404
EvaluateDraft ==
    /\ pc = "evaluate"
    /\ \E r \in {LoopEvaluation(project_plan, skill_level)} :
           IF IsRaised(r)
           THEN /\ pc' = "aborted"
                /\ UNCHANGED <<evaluation_result, stats>>
           ELSE /\ evaluation_result' = r
                /\ stats' = [stats EXCEPT !.evals = @ + 1]
                /\ pc' = "verdict"
    /\ UNCHANGED <<Inputs, iteration, project_plan, returned>>

\* variant: the best-effort branch does not leave the loop
Decide_NoBreak ==
    /\ pc = "verdict"
    /\ IF VerdictApproved(evaluation_result)
       THEN /\ pc' = "return"
            /\ UNCHANGED <<iteration, evaluation_result, stats>>
       ELSE IF HasBudget(iteration, max_iterations)
       THEN /\ iteration' = iteration + 1
            /\ pc' = "while"
            /\ UNCHANGED <<evaluation_result, stats>>
       ELSE /\ evaluation_result' = [evaluation_result EXCEPT !.approved = TRUE]
            /\ stats' = [stats EXCEPT !.forced = @ + 1]
            /\ pc' = "while"
            /\ UNCHANGED iteration
    /\ UNCHANGED <<Inputs, project_plan, returned>>

\* lines 408-424: the verdict on the draft just evaluated
Decide ==
    /\ pc = "verdict"
    /\ IF VerdictApproved(evaluation_result)
       THEN /\ pc' = "return"                                   \* break
            /\ UNCHANGED <<iteration, evaluation_result, stats>>
       ELSE IF HasBudget(iteration, max_iterations)
       THEN /\ iteration' = iteration + 1
            /\ pc' = "while"
            /\ UNCHANGED <<evaluation_result, stats>>
       ELSE /\ evaluation_result' = [evaluation_result EXCEPT !.approved = TRUE]
            /\ stats' = [stats EXCEPT !.forced = @ + 1]
            /\ pc' = "return"                                   \* break
            /\ UNCHANGED iteration
    /\ UNCHANGED <<Inputs, project_plan, returned>>

\* lines 430-434
Return ==
    /\ pc = "return"
    /\ returned' = [project_plan |-> project_plan, evaluation |-> evaluation_result,
                    iterations |-> iteration]
    /\ pc' = "done"
    /\ UNCHANGED <<Inputs, iteration, project_plan, evaluation_result, stats>>

NextLoop ==
    \/ LoopTest
    \/ RequestDraft
    \/ GenerationTimesOut
    \/ EvaluateDraft
    \/ Decide
    \/ Return

\* The function runs sequentially: whatever step is next is taken (a
\* generation call that returns, returns eventually).
SpecLoop == InitLoop /\ [][NextLoop]_vars /\ WF_vars(NextLoop)

(***************************************************************************)
(* Properties of evaluate_plan_quality                                     *)
(***************************************************************************)
Returned == op = "evaluate" /\ ~IsRaised(result)

AllScoresPass(r) == \A c \in DOMAIN r.scores : passes(r.scores[c])

TotalSteps(p) == SumSeq([k \in 1..Len(p.phases) |-> Len(p.phases[k].steps)])

\* The supplementary blocking checks of the evaluation, read off the plan.
TooTrivial(p) == TotalSteps(p) < 20

ScopeOvershoot(p, tc) ==
    \/ tc = "1 week" /\ TotalSteps(p) > 40
    \/ tc \in {"1-2 weeks", "2 weeks"} /\ TotalSteps(p) > 60

SomeStepLacksGuidance(p) ==
    \E k \in 1..Len(p.phases) : \E j \in 1..Len(p.phases[k].steps) :
        p.phases[k].steps[j].teaching_guidance.len < 30

AmbiguousStepCount(p) ==
    LET all == StepsOf(p.phases)
    IN  Cardinality({k \in 1..Len(all) :
            (all[k].step.title \cup all[k].step.description) \cap ambiguous_phrases # {}})

SupplementaryBlock(p, tc) ==
    TooTrivial(p) \/ ScopeOvershoot(p, tc) \/ SomeStepLacksGuidance(p)
        \/ AmbiguousStepCount(p) > 5

\* C1 as stated: evaluate returns approved=True if and only if the consistency
\* report has zero error-severity issues and every one of the five rubric
\* scores meets its own pass_threshold.
C1_ApprovedIffConsistentAndPassing ==
    Returned =>
        (result.approved <=>
            (get_error_count(result.consistency_report) = 0 /\ AllScoresPass(result)))

\* C1 amended: a returned evaluation has approved=True if and only if the
\* consistency report has zero errors, every rubric score meets its threshold,
\* and none of the supplementary blocking checks fires (fewer than 20 steps,
\* scope overshoot for the time constraint, a step with guidance missing or
\* shorter than 30 characters, more than 5 steps with ambiguous language).
C1_ApprovedIffNothingBlocks ==
    Returned =>
        (result.approved <=>
            /\ get_error_count(validate_project_plan(plan)) = 0
            /\ AllScoresPass(result)
            /\ ~SupplementaryBlock(plan, time_constraint))

\* a plan with clean consistency and passing scores that a supplementary
\* check rejects
C1_Witness ==
    /\ Returned
    /\ ~result.approved
    /\ get_error_count(result.consistency_report) = 0
    /\ AllScoresPass(result)
    /\ SomeStepLacksGuidance(plan)

\* C2: whenever evaluate returns approved=True the plan has no consistency
\* error (5 phases, no duplicate index, no dangling or non-earlier dependency)
\* and no rubric score is below its threshold.
C2_ApprovedImpliesConsistentAndPassing ==
    (Returned /\ result.approved) =>
        /\ ~has_errors(validate_project_plan(plan))
        /\ Len(plan.phases) = DefaultExpectedCount
        /\ \A e \in Elems(StepsOf(plan.phases)) :
              Count(StepIndices(plan.phases), e.step.index) = 1
        /\ \A e \in Elems(StepsOf(plan.phases)) : \A j \in 1..Len(e.step.dependencies) :
              /\ e.step.dependencies[j] < e.step.index
              /\ e.step.dependencies[j] \in Elems(StepIndices(plan.phases))
        /\ AllScoresPass(result)

C2_Witness ==
    /\ Returned
    /\ result.approved
    /\ \E e \in Elems(StepsOf(plan.phases)) : e.step.dependencies # <<>>

\* a rejected plan whose only defect is one consistency error
C2_RejectedWitness ==
    /\ Returned
    /\ ~result.approved
    /\ get_error_count(result.consistency_report) = 1
    /\ AllScoresPass(result)
    /\ ~SupplementaryBlock(plan, time_constraint)

(***************************************************************************)
(* Properties of the refinement loop                                       *)
(***************************************************************************)
\* The steps the loop still has ahead of it, at most: the position in the
\* current iteration plus a full round for every iteration left.
StepsAhead ==
    6 * Max0(max_iterations - iteration) +
        CASE pc = "while" -> 5
          [] pc = "draft" -> 4
          [] pc = "evaluate" -> 3
          [] pc = "verdict" -> 2
          [] pc = "return" -> 1
          [] OTHER -> 0

\* The loop can take its next step: the evaluation of a draft always comes
\* back, with a verdict or with an exception.
CanStep ==
    \/ pc = "while" /\ ENABLED LoopTest
    \/ pc = "draft" /\ ENABLED RequestDraft
    \/ pc = "evaluate" /\ \E r \in {LoopEvaluation(project_plan, skill_level)} :
                             IsRaised(r) \/ r.approved \in BOOLEAN
    \/ pc = "verdict" /\ ENABLED Decide
    \/ pc = "return" /\ ENABLED Return

\* C3: for every max_iterations >= 1 the loop ends: while it has neither
\* returned nor been ended by an exception of a collaborator it can take a
\* step, and every step brings the end nearer. When it returns it has
\* requested at least 1 and at most max_iterations drafts, and the reported
\* iterations value equals the number of drafts generated and the number
\* evaluated.
C3_LoopTerminatesWithinBudget ==
    /\ [](max_iterations >= 1 => stats.drafts <= max_iterations)
    /\ []((pc = "done" /\ max_iterations >= 1) =>
            /\ stats.drafts \in 1..max_iterations
            /\ returned.iterations = stats.drafts
            /\ stats.evals = stats.drafts)
    /\ [](pc \notin {"done", "aborted"} => CanStep)
    /\ [][StepsAhead' < StepsAhead]_vars

\* a run that used its whole budget of several iterations and returned
C3_Witness ==
    /\ pc = "done"
    /\ max_iterations = MaxIter
    /\ returned.iterations = MaxIter
    /\ stats.drafts = MaxIter
    /\ stats.evals = MaxIter

\* C4: every draft is evaluated before another draft is requested; a new draft
\* is requested only as the first one or after a rejected verdict with
\* iterations remaining (the rejected iteration was below max_iterations), and
\* never after an approved verdict.
C4_DraftValidateVerdict ==
    /\ [](stats.drafts - stats.evals \in {0, 1})
    /\ [](pc \in {"verdict", "return", "done"} => stats.evals = stats.drafts)
    /\ [][stats'.drafts # stats.drafts =>
             /\ stats'.drafts = stats.drafts + 1
             /\ stats.evals = stats.drafts
             /\ \/ stats.drafts = 0
                \/ /\ ~evaluation_result.approved
                   /\ stats.drafts < max_iterations
                   /\ iteration = stats.drafts + 1]_vars

\* a second draft is being requested after a rejected first one
C4_Witness ==
    /\ pc = "draft"
    /\ stats.drafts = 1
    /\ stats.evals = 1
    /\ ~evaluation_result.approved
    /\ iteration = 2

\* C5: the approved field the evaluation computed is overwritten only in the
\* loop's exhaustion branch: at most once per run, only when the draft of
\* iteration max_iterations was evaluated as rejected, and the override
\* changes nothing but approved; until then the loop holds the evaluation
\* exactly as computed.
C5_OverrideOnlyOnExhaustion ==
    /\ stats.forced <= 1
    /\ pc \in {"verdict", "return", "done"} /\ stats.evals > 0 =>
          \E computed \in {LoopEvaluation(project_plan, skill_level)} :
              IF stats.forced = 0
              THEN evaluation_result = computed
              ELSE /\ ~computed.approved
                   /\ evaluation_result = [computed EXCEPT !.approved = TRUE]
                   /\ iteration = max_iterations
                   /\ stats.drafts = max_iterations
                   /\ pc \in {"return", "done"}

\* a best-effort result: approved, with its critical issues still listed
C5_Witness ==
    /\ pc = "done"
    /\ stats.forced = 1
    /\ max_iterations >= 2
    /\ returned.iterations = max_iterations
    /\ returned.evaluation.approved
    /\ returned.evaluation.critical_issues # <<>>

\* C6 as stated: a generation call that times out costs one iteration and the
\* loop goes on as after a rejected verdict: the next iteration if budget
\* remains, the exhaustion branch otherwise.
C6_TimeoutIsFailedIteration ==
    [][stats'.timeouts # stats.timeouts =>
         IF iteration < max_iterations
         THEN iteration' = iteration + 1 /\ pc' = "while"
         ELSE pc' = "return"]_vars

(***************************************************************************)
(* Properties of the consistency checks                                    *)
(***************************************************************************)
AllSteps == StepsOf(plan.phases)

AllIndices == StepIndices(plan.phases)

\* dependency d of a step with index i breaks the rule
BreaksRule(d, i) == d \notin Elems(AllIndices) \/ d >= i

\* the <<position of a step, position of one of its dependencies>> pairs
DependencyEntries ==
    {<<k, j>> \in (1..Len(AllSteps)) \X (1..(MaxIndex + 2)) :
        j <= Len(AllSteps[k].step.dependencies)}

IssuesAt(r, ph, idx, d) ==
    {n \in 1..Len(r.issues) : /\ r.issues[n].location.phase = ph
                               /\ r.issues[n].location.step = idx
                               /\ r.issues[n].message.a = d}

\* C7: check_dependencies reports an error of category dependencies for a
\* step s and an entry d of its dependencies exactly when d is no index of a
\* step of the plan or d >= s.index: the issues located at a step and naming d
\* are as many as the rule-breaking entries d of the steps so located, every
\* issue is such an error, and an entry that exists and is strictly smaller
\* yields none.
C7_DependencyErrorIffRuleBroken ==
    op = "check_dependencies" =>
        /\ \A n \in 1..Len(report.issues) :
              /\ report.issues[n].severity = "error"
              /\ report.issues[n].category = "dependencies"
        /\ \A e \in DependencyEntries :
              LET s == AllSteps[e[1]]
                  d == s.step.dependencies[e[2]]
              IN  (IssuesAt(report, s.phase.index, s.step.index, d) # {})
                      <=> BreaksRule(d, s.step.index)
        /\ Len(report.issues) =
              Cardinality({e \in DependencyEntries :
                  BreaksRule(AllSteps[e[1]].step.dependencies[e[2]],
                             AllSteps[e[1]].step.index)})
        /\ report.passed <=> report.issues = <<>>

\* one step's dependency is rejected, another step's is accepted
C7_Witness ==
    /\ op = "check_dependencies"
    /\ Len(report.issues) = 1
    /\ \E e \in DependencyEntries :
          ~BreaksRule(AllSteps[e[1]].step.dependencies[e[2]], AllSteps[e[1]].step.index)

\* the dependency relation over step indices
DependsOn ==
    {<<AllSteps[e[1]].step.index, AllSteps[e[1]].step.dependencies[e[2]]>> :
        e \in DependencyEntries}

\* a finite relation has a cycle iff some non-empty set of nodes has, for each
\* of its nodes, an edge into the set
Cyclic(R) ==
    \E C \in SUBSET {x[1] : x \in R} :
        C # {} /\ \A x \in C : \E y \in C : <<x, y>> \in R

C8_CycleRejected ==
    /\ op = "check_dependencies"
    /\ Cyclic(DependsOn)
    /\ \A x \in DependsOn : x[1] # x[2]
    /\ report.issues # <<>>

Warnings(r) == {n \in 1..Len(r.issues) : r.issues[n].severity = "warning"}

Errors(r) == {n \in 1..Len(r.issues) : r.issues[n].severity = "error"}

Drifted == {k \in 1..Len(AllIndices) : AllIndices[k] # k}

Duplicated == {i \in Elems(AllIndices) : Count(AllIndices, i) > 1}

PhaseCountErrors(r) ==
    {n \in 1..Len(r.issues) : /\ r.issues[n].category = "phase_count"
                               /\ r.issues[n].severity = "error"}

PhaseCountIssues(r) == {n \in 1..Len(r.issues) : r.issues[n].category = "phase_count"}

CategoryIssues(r, cat) == {n \in 1..Len(r.issues) : r.issues[n].category = cat}

\* C11: on a plan that has phases validate runs all three checks: its issue
\* list is the issues of check_phase_count (against 5), then those of
\* check_step_numbering, then those of check_dependencies, each in full; what
\* one check finds suppresses nothing of another.
C11_ValidateRunsEveryCheck ==
    op = "validate" =>
        /\ report.issues = check_phase_count(plan.phases, 5).issues
                               \o check_step_numbering(plan.phases).issues
                               \o check_dependencies(plan.phases).issues
        /\ Cardinality(CategoryIssues(report, "phase_count")) =
              IF Len(plan.phases) # 5 THEN 1 ELSE 0
        /\ Cardinality(CategoryIssues(report, "step_numbering")) =
              Cardinality(Drifted) + Cardinality(Duplicated)
        /\ Cardinality(CategoryIssues(report, "dependencies")) =
              Cardinality({e \in DependencyEntries :
                  BreaksRule(AllSteps[e[1]].step.dependencies[e[2]],
                             AllSteps[e[1]].step.index)})

\* a plan on which each of the three checks reports something
C11_Witness ==
    /\ op = "validate"
    /\ CategoryIssues(report, "phase_count") # {}
    /\ CategoryIssues(report, "step_numbering") # {}
    /\ CategoryIssues(report, "dependencies") # {}

PassedIffNoError(r) == r.passed <=> ~\E n \in 1..Len(r.issues) : r.issues[n].severity = "error"

\* what the summary of a validate report with these issues owes, on a plan
\* with phases
AggregateSummary(r, phases) ==
    IF r.issues = <<>>
    THEN /\ r.summary.text = "All consistency checks passed"
         /\ r.summary.a = Len(phases)
         /\ r.summary.b = Len(StepsOf(phases))
    ELSE /\ r.summary.text = "Found errors and warnings"
         /\ r.summary.a = Cardinality(Errors(r))
         /\ r.summary.b = Cardinality(Warnings(r))

SubReports(phases) ==
    {check_phase_count(phases, 5), check_step_numbering(phases), check_dependencies(phases)}

\* C12 as stated: in every report validate or one of the three checks
\* returns, passed is true exactly when no issue has severity error, and
\* validate's summary is the success message with the phase and step totals
\* exactly when the report has no issue, otherwise the error and warning
\* counts.
C12_PassedAndSummary ==
    (op = "validate" /\ ~IsRaised(report)) =>
        /\ PassedIffNoError(report)
        /\ Has(plan, "phases") => \A r \in SubReports(plan.phases) : PassedIffNoError(r)
        /\ AggregateSummary(report, IF Has(plan, "phases") THEN plan.phases ELSE <<>>)

\* C12 amended: passed is true exactly when no issue has severity error, in
\* every report of validate and of the three checks; on a plan with a phases
\* collection validate's summary is the success message with the phase and
\* step totals exactly when the report has no issue, otherwise the error and
\* warning counts; on a plan without one the summary is "Critical structure
\* error".
C12_PassedAndSummaryWithPhases ==
    (op = "validate" /\ ~IsRaised(report)) =>
        /\ PassedIffNoError(report)
        /\ Has(plan, "phases") =>
              /\ \A r \in SubReports(plan.phases) : PassedIffNoError(r)
              /\ AggregateSummary(report, plan.phases)
        /\ ~Has(plan, "phases") => report.summary.text = "Critical structure error"

\* a report with a warning and no error: passed, and the counts in the summary
C12_Witness ==
    /\ op = "validate"
    /\ ~IsRaised(report)
    /\ Has(plan, "phases")
    /\ Warnings(report) # {}
    /\ Errors(report) = {}
    /\ report.passed
    /\ report.summary.text = "Found errors and warnings"

\* a clean report and a failed one
C12_CleanWitness ==
    /\ op = "validate"
    /\ ~IsRaised(report)
    /\ report.issues = <<>>
    /\ report.summary.b = 50

\* The malformed inputs: a phase or a step lacking a field, a dependency that
\* is no number, an empty phase list, a duplicate step index, a dependency on
\* a step that does not exist.
MissingField(p) ==
    \E k \in 1..Len(p.phases) :
        \/ ~Has(p.phases[k], "steps")
        \/ \E j \in 1..Len(p.phases[k].steps) :
              \E f \in {"index", "title", "dependencies"} : ~Has(p.phases[k].steps[j], f)

Malformed(p) ==
    /\ Has(p, "phases")
    /\ \/ p.phases = <<>>
       \/ MissingField(p)
       \/ /\ ~MissingField(p)
          /\ \E all \in {StepsOf(p.phases)} : \E ix \in {StepIndices(p.phases)} :
                \/ \E n \in 1..Len(ix) : Count(ix, ix[n]) > 1
                \/ \E n \in 1..Len(all) :
                      \E d \in Elems(all[n].step.dependencies) :
                          d = NotANumber \/ d \notin Elems(ix)

\* what the last call ended in: the report of validate, the result of evaluate
Outcome == IF op = "evaluate" THEN result ELSE report

ReportOf(v) == IF op = "evaluate" THEN v.consistency_report ELSE v

\* C13 as stated: on a malformed plan neither validate nor evaluate raises;
\* each returns a report that holds an issue of severity error.
C13_MalformedInputIsReported ==
    (op \in {"validate", "evaluate"} /\ Malformed(plan)) =>
        /\ ~IsRaised(Outcome)
        /\ Errors(ReportOf(Outcome)) # {}

\* the report of the short-circuit: one issue, an error of category structure
StructureReport(r) ==
    /\ Len(r.issues) = 1
    /\ r.issues[1].severity = "error"
    /\ r.issues[1].category = "structure"
    /\ ~r.passed

\* C14 as stated: on a plan without a phases collection validation ends in a
\* report with exactly one issue, an error of category structure, and passed
\* false; none of the three checks and no further check of the evaluation is
\* run, so the evaluation ends with that report too.
C14_PhaselessPlanShortCircuits ==
    (op \in {"validate", "evaluate"} /\ ~Has(plan, "phases")) =>
        /\ ~IsRaised(Outcome)
        /\ StructureReport(ReportOf(Outcome))

(***************************************************************************)
(* Properties of the scoring functions                                     *)
(***************************************************************************)
IsRubricScore(v) == DOMAIN v = {"criterion", "score", "feedback", "pass_threshold"}

\* C15 as stated: each of the five scoring functions returns a RubricScore
\* and never raises, for every plan, skill level, project type and time
\* constraint, plans on which no penalty fires included.
C15_ScoringNeverRaises ==
    op \in ScoreOps => ~IsRaised(result) /\ IsRubricScore(result)

\* C16: every RubricScore one of the five scoring functions returns has an
\* integer score from 0 to 10.
C16_ScoreWithinRange ==
    (op \in ScoreOps /\ ~IsRaised(result)) => result.score \in 0..10

\* a returned score with several penalties subtracted from 10
C16_Witness ==
    /\ op = "feasibility"
    /\ ~IsRaised(result)
    /\ result.score < 5
    /\ Len(result.feedback) >= 3

\* the lowest and the highest score are returned
C16_ExtremesWitness ==
    \/ op = "balance" /\ result.score = 0
    \/ op = "technical_depth" /\ result.score = 10 /\ plan.phases # <<>>

\* C17 as stated: the empty text and every text of fewer than 10 words score
\* strictly below 7 on clarity, whatever their capitalisation and vague words.
C17_BriefTextFailsClarity ==
    (op = "clarity" /\ plan.idea.refined_summary.words < 10) =>
        /\ ~IsRaised(result)
        /\ result.score < 7
        /\ ~passes(result)

(***************************************************************************)
(* The reference plan                                                      *)
(***************************************************************************)
\* 5 phases of 10 steps, indices 1..50 in order, no dependency violation,
\* "test" in every step description, notes of 300 characters, an idea of 80
\* words; every step carries teaching guidance of 30 characters or more and
\* no step text holds an ambiguous phrase.
ReferencePlan(p) ==
    /\ Len(p.phases) = 5
    /\ \A k \in 1..5 : Len(p.phases[k].steps) = 10
    /\ StepIndices(p.phases) = [n \in 1..50 |-> n]
    /\ check_dependencies(p.phases).issues = <<>>
    /\ \A k \in 1..5 : \A j \in 1..10 :
          /\ "test" \in p.phases[k].steps[j].description
          /\ p.phases[k].steps[j].teaching_guidance.len >= 30
          /\ (p.phases[k].steps[j].title \cup p.phases[k].steps[j].description)
                 \cap ambiguous_phrases = {}
    /\ p.teaching_notes.len = 300
    /\ p.idea.refined_summary.words = 80

\* C18 as stated: the reference plan, evaluated with project_type "medium" and
\* time_constraint "2 weeks" (at any skill level), yields a consistency report
\* that passed, clarity and balance scores of 8 or more, and approval.
C18_ReferencePlanApproved ==
    (/\ op = "evaluate"
     /\ ReferencePlan(plan)
     /\ project_type = "medium"
     /\ time_constraint = "2 weeks") =>
        /\ ~IsRaised(result)
        /\ result.consistency_report.passed
        /\ result.scores.clarity.score >= 8
        /\ result.scores.balance.score >= 8
        /\ result.approved

(***************************************************************************)
(* The step-count boundary of toy projects                                 *)
(***************************************************************************)
\* the feasibility score was penalised for too few steps
PenalisedForStepCount(r) ==
    \E n \in 1..Len(r.scores.feasibility.feedback) :
        r.scores.feasibility.feedback[n] = "projects should have more steps"

\* the plan was rejected for its step count
RejectedForStepCount(r) ==
    /\ ~r.approved
    /\ \E n \in 1..Len(r.critical_issues) : r.critical_issues[n].kind = "Plan is too trivial"

\* C19 as stated: under project_type "toy" a plan of exactly 15 steps is
\* neither penalised nor rejected for its step count, and every plan of fewer
\* than 15 steps is.
C19_ToyStepCountBoundary ==
    (Returned /\ project_type = "toy") =>
        /\ TotalSteps(plan) = 15 =>
              ~PenalisedForStepCount(result) /\ ~RejectedForStepCount(result)
        /\ TotalSteps(plan) < 15 =>
              PenalisedForStepCount(result) /\ RejectedForStepCount(result)

C20_RaisedWitness ==
    /\ op \in {"validate", "evaluate"}
    /\ IsRaised(Outcome)
    /\ Has(plan, "phases")
    /\ MissingField(plan)

(***************************************************************************)
(* Properties of Step                                                      *)
(***************************************************************************)
\* C21: in every state of a Step, after construction with any combination of
\* teaching_guidance and what_you_learn and after any writes to either field,
\* the two fields hold the same value.
C21_GuidanceFieldsMirrored ==
    the_step # NoValue => the_step.teaching_guidance = the_step.what_you_learn

\* a step built with two different texts and written to afterwards
C21_Witness ==
    /\ the_step # NoValue
    /\ step_args.teaching_guidance # Absent
    /\ step_args.what_you_learn # Absent
    /\ step_args.teaching_guidance # step_args.what_you_learn
    /\ op = "write_teaching_guidance"
    /\ Truthy(the_step.what_you_learn)

\* C22 as stated: a Step constructed with a non-empty teaching_guidance and
\* no what_you_learn argument has both fields equal to the guidance passed in.
C22_GuidanceKeptByConstructor ==
    (/\ op = "construct"
     /\ step_args.what_you_learn = Absent
     /\ step_args.teaching_guidance # Absent
     /\ Truthy(step_args.teaching_guidance)) =>
        /\ the_step.teaching_guidance = step_args.teaching_guidance
        /\ the_step.what_you_learn = step_args.teaching_guidance

(***************************************************************************)
(* Properties of the findings of evaluate_plan_quality                     *)
(***************************************************************************)
\* the notes of a list that quote the rubric score s
NotesOn(notes, s) == {n \in 1..Len(notes) : notes[n].src = s}

\* the rule for one score, in its weakest reading: failing is critical,
\* passing at the threshold itself is a suggestion, more than one point above
\* is neither (one point above is left open)
NearThresholdRule(r, s) ==
    /\ ~passes(s) =>
          NotesOn(r.critical_issues, s) # {} /\ NotesOn(r.suggestions, s) = {}
    /\ s.score = s.pass_threshold =>
          NotesOn(r.suggestions, s) # {} /\ NotesOn(r.critical_issues, s) = {}
    /\ s.score - s.pass_threshold > 1 =>
          NotesOn(r.suggestions, s) = {} /\ NotesOn(r.critical_issues, s) = {}

\* C23 as stated: for each of the five criteria a score below its threshold
\* adds a critical issue, a passing score within one point of its threshold
\* adds a suggestion, and a score further above adds neither.
C23_NearThresholdRuleUniform ==
    Returned => \A c \in DOMAIN result.scores : NearThresholdRule(result, result.scores[c])

\* the positions of the steps whose guidance is absent or under 30 characters
LackingSteps(p) ==
    UNION {{n \in 1..Len(all) : all[n].step.teaching_guidance.len < 30} :
              all \in {StepsOf(p.phases)}}

GuidanceIssues(r) ==
    {n \in 1..Len(r.critical_issues) : r.critical_issues[n].kind = "lacks implementation guidance"}

\* C24: every step whose guidance is absent or shorter than 30 characters adds
\* exactly one critical issue to the evaluation, which names the step, and a
\* plan with such a step is not approved, whatever its scores and its
\* consistency report.
C24_GuidancelessStepRejects ==
    Returned =>
        \E all \in {StepsOf(plan.phases)} :
        \E lacking \in {LackingSteps(plan)} :
        \E issues \in {GuidanceIssues(result)} :
            /\ Cardinality(issues) = Cardinality(lacking)
            /\ \A n \in lacking :
                  \E k \in issues : result.critical_issues[k].src.n = all[n].step.index
            /\ \A k \in issues :
                  \E n \in lacking : result.critical_issues[k].src.n = all[n].step.index
            /\ lacking # {} => ~result.approved

\* several steps lack guidance in a plan that is consistent and passes every
\* rubric: the guidance issues alone reject it
C24_Witness ==
    /\ Returned
    /\ Cardinality(LackingSteps(plan)) >= 2
    /\ result.consistency_report.passed
    /\ AllScoresPass(result)
    /\ Len(result.critical_issues) = Cardinality(LackingSteps(plan))
    /\ ~result.approved

(***************************************************************************)
(* The supplementary heuristics                                            *)
(***************************************************************************)
HasKind(notes, kind) == \E n \in 1..Len(notes) : notes[n].kind = kind

\* (a) two phases have the same name
DuplicatePhaseNames(p) ==
    \E k \in 1..Len(p.phases) : \E j \in 1..Len(p.phases) :
        k # j /\ p.phases[k].name.id = p.phases[j].name.id

\* (b) the largest phase has more than 6 steps more than the smallest
WidePhaseGap(p) ==
    \E k \in 1..Len(p.phases) : \E j \in 1..Len(p.phases) :
        Len(p.phases[k].steps) - Len(p.phases[j].steps) > 6

\* (e), (f) the plan has steps and none mentions one of the words, in its
\* title, description or guidance
NoStepMentions(p, words) ==
    \E all \in {StepsOf(p.phases)} :
        /\ all # <<>>
        /\ \A n \in 1..Len(all) :
              (all[n].step.title \cup all[n].step.description
                  \cup all[n].step.teaching_guidance.kw) \cap words = {}

\* the four heuristics: whether it fires, the note it writes, the list of the
\* result the note goes to
Heuristics(p) ==
    {[fires |-> DuplicatePhaseNames(p), kind |-> "Duplicate phase names detected",
      list |-> "architecture_notes"],
     [fires |-> WidePhaseGap(p), kind |-> "Phase sizes vary widely",
      list |-> "architecture_notes"],
     [fires |-> NoStepMentions(p, {"test"}),
      kind |-> "Add a dedicated testing/validation step", list |-> "test_recommendations"],
     [fires |-> NoStepMentions(p, {"error", "exception", "logging", "retry"}),
      kind |-> "No step mentions error handling or logging", list |-> "resilience_risks"]}

C25_GuidanceWitness ==
    /\ Returned
    /\ \E all \in {StepsOf(plan.phases)} :
          \A n \in 1..Len(all) : "test" \notin all[n].step.title \cup all[n].step.description
    /\ ~NoStepMentions(plan, {"test"})
    /\ result.test_recommendations = <<>>

(***************************************************************************)
(* Properties of the feedback of the scoring functions                     *)
(***************************************************************************)
\* the sentence each function gives when its list of fragments is empty
PositiveSentences ==
    {"Concept is clear and well-articulated", "Well-balanced",
     "Excellent teaching clarity",
     "Strong technical depth appropriate for skill level", "Scope well-matched"}

\* fragments appended without a penalty
BonusFragments == {"Excellent technical breadth", "Good technical coverage"}

\* C26 as stated: every scoring function returns, on every input, the single
\* positive sentence as feedback exactly when no penalty fired (score 10), and
\* otherwise one fragment per applied penalty and no other fragment.
C26_FeedbackMatchesPenalties ==
    op \in ScoreOps =>
        /\ ~IsRaised(result)
        /\ result.score = 10 <=>
              (Len(result.feedback) = 1 /\ result.feedback[1] \in PositiveSentences)
        /\ result.score < 10 =>
              /\ Len(result.feedback) \in 1..(10 - result.score)
              /\ \A n \in 1..Len(result.feedback) :
                    result.feedback[n] \notin PositiveSentences \cup BonusFragments

(***************************************************************************)
(* Properties of evaluate_phase_balance                                    *)
(***************************************************************************)
StepCounts(phases) == [k \in 1..Len(phases) |-> Len(phases[k].steps)]

\* the population variance of the counts exceeds 16: mean of squares minus
\* square of mean, cleared of fractions; no variance for no counts
VarianceOver16(counts) ==
    /\ counts # <<>>
    /\ Len(counts) * SumSeq([k \in 1..Len(counts) |-> counts[k] * counts[k]])
          - SumSeq(counts) * SumSeq(counts) > 16 * Len(counts) * Len(counts)

\* the sum P of the balance penalties
BalancePenalty(phases) ==
    LET counts == StepCounts(phases)
    IN  (IF Len(phases) # 5 THEN 3 ELSE 0)
        + (IF \E k \in 1..Len(counts) : counts[k] < 3 THEN 2 ELSE 0)
        + (IF \E k \in 1..Len(counts) : counts[k] > 15 THEN 2 ELSE 0)
        + (IF VarianceOver16(counts) THEN 1 ELSE 0)
        + (IF SumSeq(counts) < 40 \/ SumSeq(counts) > 60 THEN 1 ELSE 0)

\* C27 as stated: for every list of phases, the empty list included, the
\* balance score is max(0, 10 - P).
C27_BalanceIsTenMinusPenalties ==
    op = "balance" =>
        /\ ~IsRaised(result)
        /\ result.score = Max0(10 - BalancePenalty(plan.phases))

\* C27 amended: for every non-empty list of phases the balance score is
\* max(0, 10 - P); for the empty list it is 0.
C27_BalanceOfNonEmptyList ==
    op = "balance" =>
        /\ ~IsRaised(result)
        /\ plan.phases # <<>> => result.score = Max0(10 - BalancePenalty(plan.phases))
        /\ plan.phases = <<>> => result.score = 0

\* the list of the repository's test of poor balance: every penalty but the
\* overscoped one
C27_Witness ==
    /\ op = "balance"
    /\ StepCounts(plan.phases) = <<1, 20, 0>>
    /\ result.score = 1

\* the variance is exactly 16 and is not penalised
C27_BoundaryWitness ==
    /\ op = "balance"
    /\ StepCounts(plan.phases) = <<5, 5, 5, 5, 15>>
    /\ result.score = 9

(***************************************************************************)
(* The approval rule                                                       *)
(***************************************************************************)
FailingScores(r) == {c \in DOMAIN r.scores : ~passes(r.scores[c])}

\* C28: in every returned evaluation approved is true exactly when
\* critical_issues is empty: each score that fails its threshold has added a
\* critical issue, so the test of the scores never changes the verdict.
C28_ApprovedIffNoCriticalIssue ==
    Returned =>
        /\ result.approved <=> result.critical_issues = <<>>
        /\ \A c \in FailingScores(result) :
              NotesOn(result.critical_issues, result.scores[c]) # {}

\* a plan rejected for a failing score only: one critical issue for
\* each failing score and no other
C28_Witness ==
    /\ Returned
    /\ ~result.approved
    /\ FailingScores(result) # {}
    /\ Len(result.critical_issues) = Cardinality(FailingScores(result))

(***************************************************************************)
(* What create_full_plan_crew returns                                      *)
(***************************************************************************)
\* C29: for every max_iterations >= 1, whatever the verdicts were, the
\* evaluation in the FullPlanResult that create_full_plan_crew returns has
\* approved = True, genuinely or by the override of the last iteration; its
\* critical issues stay as computed.
C29_ReturnedEvaluationApproved ==
    (pc = "done" /\ max_iterations >= 1) =>
        /\ returned # NoValue
        /\ returned.evaluation # NoValue
        /\ returned.evaluation.approved
        /\ returned.evaluation.critical_issues =
              LoopEvaluation(returned.project_plan, skill_level).critical_issues

\* a returned evaluation that is approved and lists critical issues
C29_Witness ==
    /\ pc = "done"
    /\ max_iterations >= 1
    /\ returned.evaluation.approved
    /\ returned.evaluation.critical_issues # <<>>
    /\ returned.iterations = max_iterations

\* C30: called with max_iterations <= 0, create_full_plan_crew generates and
\* evaluates no draft, and the FullPlanResult it returns has no plan and no
\* evaluation (both None) while reporting iterations = 1.
C30_NoIterationsReturnsEmptyResult ==
    (max_iterations <= 0) =>
        /\ stats.drafts = 0
        /\ stats.evals = 0
        /\ stats.forced = 0
        /\ project_plan = NoValue
        /\ evaluation_result = NoValue
        /\ pc \in {"while", "return", "done"}
        /\ (pc = "done") =>
              returned = [project_plan |-> NoValue, evaluation |-> NoValue,
                          iterations |-> 1]

C30_Witness ==
    /\ pc = "done"
    /\ max_iterations <= 0
    /\ returned # NoValue
    /\ returned.project_plan = NoValue
    /\ returned.evaluation = NoValue
    /\ returned.iterations = 1

====
